---- MODULE Spec2Model ----
(***************************************************************************)
(* Verification model of the libsql replicated-database core:              *)
(*   - the client-facing Database (libsql/src/database.rs) with its        *)
(*     construction choices, sync() and sync_frames(), and the Frame       *)
(*     Applier it delegates to;                                            *)
(*   - the server Database / Connection tagged unions                      *)
(*     (libsql-server/src/database/mod.rs) with their accessors, the       *)
(*     write-block flag and the per-variant dispatch;                      *)
(*   - the Frame Log with its latest-sequence notifier.                    *)
(***************************************************************************)
EXTENDS Integers, Sequences, FiniteSets, TLC

VARIABLES
    \* ---- client-facing Database (libsql/src/database.rs)
    ctor,       \* the constructor that built the Database
    db_type,    \* Database.db_type
    applier,    \* state of the local sync database behind DbType::Sync
    cres,       \* the last client call and its result (n flips on every call)
    \* ---- server Database / Connection (libsql-server/src/database/mod.rs)
    sdb,        \* the server Database enum value
    flags,      \* the AtomicBool cells reachable as write-block flags
    handle,     \* what the coordinator got from block_writes()
    conns,      \* the Connection made for each session by connection_maker()
    req,        \* the last call on a Connection wrapper
    calls,      \* the backend calls that wrapper call made
    sres,       \* the result the wrapper returned
    bres,       \* the outcome the backend produced
    tick,       \* flips on every Connection wrapper call
    acc,        \* the last Database accessor call and its result
    \* ---- Frame Log and notifier
    log,        \* number of frames durably appended to the Frame Log
    notifier_cell, \* the watch channel: [value, version]
    subs,       \* the subscribers obtained from notifier()
    \* ---- parser Context (sqlite3-parser/src/parser/mod.rs)
    pctx,       \* the Context
    pcompleted, \* the parser has completed since the last reset()
    pres        \* the last call on the Context that returns a value

vars == <<ctor, db_type, applier, cres, sdb, flags, handle, conns, req, calls,
          sres, bres, tick, acc, log, notifier_cell, subs,
          pctx, pcompleted, pres>>

clientVars == <<ctor, db_type, applier, cres>>
serverVars == <<sdb, flags, handle, conns, req, calls, sres, bres, tick, acc>>
logVars == <<log, notifier_cell, subs>>
parserVars == <<pctx, pcompleted, pres>>

\* ------------------------------------------------------------------ bounds
MaxFrameNo == 3
MaxBatchLen == 2
MaxTxnFrames == 2
MaxModuleArgs == 1

\* Option<T>: None is the empty set, Some(x) the singleton
None == {}
Some(x) == {x}

Ok(v) == [kind |-> "Ok", val |-> v, err |-> "", msg |-> ""]
Err(e, m) == [kind |-> "Err", val |-> 0, err |-> e, msg |-> m]

(***************************************************************************)
(* Part D. The parser Context (sqlite3-parser/src/parser/mod.rs)           *)
(***************************************************************************)
\* the input bytes: "x80" is a byte that is not valid UTF-8 on its own
Inputs == {<<"c", "r">>, <<"c", "x80">>}

\* Token(start, type, end) as the parser hands it to vtab_arg_extend
TokensOf(input) == {t \in [start : 0..Len(input), end : 0..Len(input)] : t.start < t.end}

ExplainKinds == {"Explain", "QueryPlan"}
Stmts == {"stmt"}
Names == {"name"}
ParserErrors == {"StackOverflow", "SyntaxError", "UnexpectedEof", "Custom"}

\* &self.input[start..end]
Slice(input, start, end) == [i \in 1..(end - start) |-> input[start + i]]

\* std::str::from_utf8(..).is_ok()
from_utf8_ok(bytes) == \A i \in 1..Len(bytes) : bytes[i] # "x80"

Context_new(input) ==
    [input |-> input, explain |-> None, stmt |-> None, constraint_name |-> None,
     module_arg |-> None, module_args |-> None, done |-> FALSE, error |-> None]

\* Consume parsed command
Context_cmd(c) ==
    IF c.stmt # None
    THEN LET stmt == CHOOSE s \in c.stmt : TRUE
             kind == IF c.explain = Some("Explain") THEN "Explain"
                     ELSE IF c.explain = Some("QueryPlan") THEN "ExplainQueryPlan"
                     ELSE "Stmt"
         IN  [ctx |-> [c EXCEPT !.stmt = None, !.explain = None],
              ret |-> Some([cmd |-> kind, stmt |-> stmt])]
    ELSE [ctx |-> c, ret |-> None]

Context_constraint_name(c) ==
    [ctx |-> [c EXCEPT !.constraint_name = None], ret |-> c.constraint_name]

Context_no_constraint_name(c) == c.constraint_name = None

Context_add_module_arg(c) ==
    IF c.module_arg # None
    THEN LET se == CHOOSE x \in c.module_arg : TRUE
             bytes == Slice(c.input, se[1], se[2])
             taken == [c EXCEPT !.module_arg = None]
         IN  IF from_utf8_ok(bytes)
             THEN [taken EXCEPT !.module_args =
                     Some(Append(IF c.module_args = None THEN <<>>
                                 ELSE CHOOSE v \in c.module_args : TRUE, bytes))]
             ELSE taken
    ELSE c

Context_vtab_arg_init(c) == [Context_add_module_arg(c) EXCEPT !.module_arg = None]

Context_vtab_arg_extend(c, any) ==
    IF c.module_arg # None
    THEN LET se == CHOOSE x \in c.module_arg : TRUE IN
         [c EXCEPT !.module_arg = Some(<<se[1], any.end>>)]
    ELSE [c EXCEPT !.module_arg = Some(<<any.start, any.end>>)]

Context_module_args(c) ==
    LET a == Context_add_module_arg(c) IN
    [ctx |-> [a EXCEPT !.module_args = None], ret |-> a.module_args]

Context_sqlite3_error_msg(c, msg) == c

\* This routine is called after a single SQL statement has been parsed.
Context_sqlite3_finish_coding(c) == [c EXCEPT !.done = TRUE]

\* Return `true` if parser completes either successfully or with an error.
Context_done(c) == c.done \/ c.error # None

Context_is_ok(c) == c.error = None

\* Consume error generated by parser
Context_error(c) == [ctx |-> [c EXCEPT !.error = None], ret |-> c.error]

Context_reset(c) ==
    [c EXCEPT !.explain = None, !.stmt = None, !.constraint_name = None,
              !.module_arg = None, !.module_args = None, !.done = FALSE,
              !.error = None]

NoParserCall == [op |-> "none", ret |-> "none"]

ParserIdle ==
    /\ pctx = Context_new(<<"c", "r">>)
    /\ pcompleted = FALSE
    /\ pres = NoParserCall

(***************************************************************************)
(* Part A. The client-facing Database                                      *)
(***************************************************************************)
Paths == {"a.db"}
Urls == {"http://peer"}
Tokens == {"tok"}
Pages == {"p1", "p2"}
\* the page payload of the frame with sequence number n: within one primary
\* lineage a sequence number names one payload
PayloadOf(n) == <<"payload", n>>
NoPayload == <<"payload", 0>>

\* OpenFlags as the set of flag bits that are set
AllOpenFlags == {"SQLITE_OPEN_READ_ONLY", "SQLITE_OPEN_READ_WRITE", "SQLITE_OPEN_CREATE"}
OpenFlags_default == {"SQLITE_OPEN_READ_WRITE", "SQLITE_OPEN_CREATE"}

DbType_Memory == [type |-> "Memory", path |-> "", flags |-> {}, url |-> "", auth_token |-> ""]
DbType_File(path, fl) == [type |-> "File", path |-> path, flags |-> fl, url |-> "", auth_token |-> ""]
DbType_Sync(path, url, token) == [type |-> "Sync", path |-> path, flags |-> {}, url |-> url, auth_token |-> token]
DbType_Remote(url, token) == [type |-> "Remote", path |-> "", flags |-> {}, url |-> url, auth_token |-> token]

\* impl fmt::Debug for DbType
DbType_fmt(t) ==
    CASE t.type = "Memory" -> "Memory"
      [] t.type = "File" -> "File"
      [] t.type = "Sync" -> "Sync"
      [] t.type = "Remote" -> "Remote"
      [] OTHER -> "no database type set"

open_in_memory == DbType_Memory
open_with_flags(db_path, fl) == DbType_File(db_path, fl)
open(db_path) == open_with_flags(db_path, OpenFlags_default)
open_with_local_sync(db_path) == DbType_File(db_path, OpenFlags_default)
open_with_remote_sync_connector(db_path, url, token) == DbType_Sync(db_path, url, token)
open_with_remote_sync(db_path, url, token) == open_with_remote_sync_connector(db_path, url, token)
open_remote_with_connector(url, token) == DbType_Remote(url, token)
open_remote(url, token) == open_remote_with_connector(url, token)

\* ---- frames and the Frame Applier (crate::local::Database)
Frame == {[frame_no |-> n, page_no |-> p, payload |-> PayloadOf(n)] :
            n \in 1..MaxFrameNo, p \in Pages}

NonDecreasing(fs) == \A i \in 1..(Len(fs) - 1) : fs[i].frame_no <= fs[i + 1].frame_no

Batches == UNION {{fs \in [1..n -> Frame] : NonDecreasing(fs)} : n \in 0..MaxBatchLen}

ApplierInit == [last_applied |-> 0, pages |-> [p \in Pages |-> NoPayload]]

RECURSIVE ApplyFrames(_, _)
ApplyFrames(st, frames) ==
    IF frames = <<>> THEN [ok |-> TRUE, st |-> st, n |-> 0]
    ELSE LET f == Head(frames) IN
         IF f.frame_no <= st.last_applied
         THEN ApplyFrames(st, Tail(frames))
         ELSE IF f.frame_no > st.last_applied + 1
         THEN [ok |-> FALSE, st |-> st, n |-> 0]
         ELSE LET r == ApplyFrames([last_applied |-> f.frame_no,
                                    pages |-> [st.pages EXCEPT ![f.page_no] = f.payload]],
                                   Tail(frames))
              IN  IF r.ok THEN [r EXCEPT !.n = r.n + 1] ELSE r

\* Frame Applier apply(frames_batch) -> Result<count_applied>
local_sync_frames(st, frames) ==
    LET r == ApplyFrames(st, frames) IN
    IF r.ok THEN [st |-> r.st, res |-> Ok(r.n)]
    ELSE [st |-> st, res |-> Err("ReplicationGap", "")]

\* local Database::sync(): pull the frames after last_applied from the peer
\* and apply them, or fail on the transport
local_sync(st, pulled, reachable) ==
    IF reachable THEN local_sync_frames(st, pulled)
    ELSE [st |-> st, res |-> Err("Transport", "")]

\* ---- Database::sync / Database::sync_frames
sync_frames_files_too(t, st, frames) ==
    IF t.type \in {"Sync", "File"}
    THEN LET r == local_sync_frames(st, frames) IN
         [st |-> r.st, res |-> r.res, delegated |-> TRUE]
    ELSE [st |-> st, res |-> Err("SyncNotSupported", DbType_fmt(t)), delegated |-> FALSE]

sync_frames_never_delegates(t, st, frames) ==
    [st |-> st, res |-> Err("SyncNotSupported", DbType_fmt(t)), delegated |-> FALSE]

sync_frames_drops_count(t, st, frames) ==
    IF t.type = "Sync"
    THEN LET r == local_sync_frames(st, frames) IN
         [st |-> r.st,
          res |-> IF r.res.kind = "Ok" THEN Ok(Len(frames)) ELSE r.res,
          delegated |-> TRUE]
    ELSE [st |-> st, res |-> Err("SyncNotSupported", DbType_fmt(t)), delegated |-> FALSE]

sync_frames(t, st, frames) ==
    IF t.type = "Sync"
    THEN LET r == local_sync_frames(st, frames) IN
         [st |-> r.st, res |-> r.res, delegated |-> TRUE]
    ELSE [st |-> st, res |-> Err("SyncNotSupported", DbType_fmt(t)), delegated |-> FALSE]

sync(t, st, pulled, reachable) ==
    IF t.type = "Sync"
    THEN LET r == local_sync(st, pulled, reachable) IN
         [st |-> r.st, res |-> r.res, delegated |-> TRUE]
    ELSE [st |-> st, res |-> Err("SyncNotSupported", DbType_fmt(t)), delegated |-> FALSE]

NoCall == [op |-> "none", frames |-> <<>>, res |-> Ok(0), delegated |-> FALSE, n |-> FALSE]

ClientConstructions ==
    {[ctor |-> "open_in_memory", t |-> open_in_memory]}
    \cup {[ctor |-> "open", t |-> open(p)] : p \in Paths}
    \cup {[ctor |-> "open_with_flags", t |-> open_with_flags(p, fl)] :
            p \in Paths, fl \in {{"SQLITE_OPEN_READ_ONLY"}, OpenFlags_default}}
    \cup {[ctor |-> "open_with_local_sync", t |-> open_with_local_sync(p)] : p \in Paths}
    \cup {[ctor |-> "open_with_remote_sync", t |-> open_with_remote_sync(p, u, k)] :
            p \in Paths, u \in Urls, k \in Tokens}
    \cup {[ctor |-> "open_remote", t |-> open_remote(u, k)] : u \in Urls, k \in Tokens}

NoReceiver == [chan |-> "none", seen |-> 0]
\* the client sessions a Connection may be made for
ConnIds == {"c1", "c2"}
NoConnection == [variant |-> "none", was_blocked |-> FALSE]
NoReq == [conn |-> "none", op |-> "none", args |-> <<>>]
NoAcc == [op |-> "none", res |-> [outcome |-> "Returned", val |-> None]]

ServerIdle ==
    /\ sdb = [kind |-> "Replica", wal_wrapper |-> FALSE, replicator |-> FALSE,
              new_frame_notifier |-> NoReceiver, alive |-> TRUE]
    /\ flags = [c \in {"shared", "copy"} |-> FALSE]
    /\ handle = None
    /\ conns = [c \in ConnIds |-> NoConnection]
    /\ req = NoReq
    /\ calls = <<>>
    /\ sres = Ok(0)
    /\ bres = Ok(0)
    /\ tick = FALSE
    /\ acc = NoAcc

\* the tasks that may subscribe to the notifier
Subscribers == {"s1", "s2"}
NoSubscriber == [rx |-> NoReceiver, pc |-> "none", target |-> 0, checked |-> FALSE,
                 observed |-> None, wakes |-> 0]

LogIdle ==
    /\ log = 0
    /\ notifier_cell = [value |-> None, version |-> 0]
    /\ subs = [s \in Subscribers |-> NoSubscriber]

ClientIdle ==
    /\ ctor = "open_in_memory"
    /\ db_type = open_in_memory
    /\ applier = ApplierInit
    /\ cres = NoCall

InitClient ==
    /\ \E c \in ClientConstructions : ctor = c.ctor /\ db_type = c.t
    /\ applier = ApplierInit
    /\ cres = NoCall
    /\ ServerIdle
    /\ LogIdle
    /\ ParserIdle

\* db.sync().await
Sync ==
    /\ \E reachable \in BOOLEAN :
       \E pulled \in {fs \in Batches :
                        \A i \in 1..Len(fs) : fs[i].frame_no = applier.last_applied + i} :
          LET r == sync(db_type, applier, pulled, reachable) IN
          /\ applier' = r.st
          /\ cres' = [op |-> "sync", frames |-> <<>>, res |-> r.res, delegated |-> r.delegated,
                      n |-> ~cres.n]
    /\ UNCHANGED <<ctor, db_type>>
    /\ UNCHANGED <<serverVars, logVars, parserVars>>

\* db.sync_frames(frames)
SyncFrames ==
    /\ \E frames \in Batches :
          LET r == sync_frames(db_type, applier, frames) IN
          /\ applier' = r.st
          /\ cres' = [op |-> "sync_frames", frames |-> frames, res |-> r.res,
                      delegated |-> r.delegated, n |-> ~cres.n]
    /\ UNCHANGED <<ctor, db_type>>
    /\ UNCHANGED <<serverVars, logVars, parserVars>>

NextClient == Sync \/ SyncFrames

SpecClient == InitClient /\ [][NextClient]_vars

\* ------------------------------------------------------------ claims, part A

\* C1: on a Database that is not the Sync variant, sync() and sync_frames()
\* return the SyncNotSupported error for every input, without delegating and
\* without changing the Database's variant or state; on the Sync variant they
\* delegate to the local sync database.
C1_NonSyncUnsupported ==
    [][/\ db_type.type # "Sync" =>
            /\ cres'.res = Err("SyncNotSupported", DbType_fmt(db_type))
            /\ ~cres'.delegated
            /\ db_type' = db_type
            /\ applier' = applier
       /\ db_type.type = "Sync" => cres'.delegated
       /\ cres'.res.kind \in {"Ok", "Err"}]_vars

C1_Witness ==
    /\ db_type.type = "File"
    /\ cres.op = "sync_frames"
    /\ cres.frames # <<>>
    /\ cres.res.err = "SyncNotSupported"

\* The variant each construction choice stands for
VariantOf(c) ==
    CASE c = "open_in_memory" -> "Memory"
      [] c \in {"open", "open_with_flags"} -> "File"
      [] c \in {"open_with_local_sync", "open_with_remote_sync"} -> "Sync"
      [] c = "open_remote" -> "Remote"

\* C2: each construction choice builds its corresponding variant, and
\* sync_frames on a Database opened with open_with_local_sync reaches the
\* frame applier instead of returning the unsupported-operation error.
C2_LocalSyncCanSync ==
    cres.op = "sync_frames" =>
        /\ db_type.type = VariantOf(ctor)
        /\ ctor = "open_with_local_sync" =>
              /\ cres.delegated
              /\ cres.res.err # "SyncNotSupported"

\* C4: a batch whose first sequence number is beyond last-applied+1, given to
\* the Frame Applier through sync_frames, fails with the replication-gap
\* error, applies no frame and leaves last-applied unchanged.
C4_GapRejected ==
    [][(/\ db_type.type = "Sync"
        /\ cres'.op = "sync_frames"
        /\ cres'.frames # <<>>
        /\ Head(cres'.frames).frame_no > applier.last_applied + 1)
       => /\ cres'.res.kind = "Err"
          /\ cres'.res.err = "ReplicationGap"
          /\ applier'.pages = applier.pages
          /\ applier'.last_applied = applier.last_applied]_vars

C4_Witness ==
    /\ db_type.type = "Sync"
    /\ cres.op = "sync_frames"
    /\ cres.frames # <<>>
    /\ Head(cres.frames).frame_no > applier.last_applied + 1
    /\ cres.res.err = "ReplicationGap"
    /\ applier.last_applied > 0

\* The step is a second sync_frames with the batch of the call before it
SameBatchAgain ==
    /\ db_type.type = "Sync"
    /\ cres.op = "sync_frames"
    /\ cres'.op = "sync_frames"
    /\ cres'.n # cres.n
    /\ cres'.frames = cres.frames

Variants == {"Primary", "Replica", "Schema"}

Returned(v) == [outcome |-> "Returned", val |-> v]
Panicked == [outcome |-> "Panic", val |-> None]

\* ---- the Frame Log behind wal_wrapper.wrapper().logger()
\* append(transaction_frames): publish the new latest sequence number only
\* after a durable append; a failed append changes nothing
FrameLog_append_publishes_on_failure(lg, cell, k, io_ok) ==
    [log |-> IF io_ok THEN lg + k ELSE lg,
     cell |-> [value |-> Some(lg + k), version |-> cell.version + 1],
     res |-> IF io_ok THEN Ok(lg + k) ELSE Err("Durability", "")]

FrameLog_append(lg, cell, k, io_ok) ==
    IF io_ok
    THEN [log |-> lg + k,
          cell |-> [value |-> Some(lg + k), version |-> cell.version + 1],
          res |-> Ok(lg + k)]
    ELSE [log |-> lg, cell |-> cell, res |-> Err("Durability", "")]

\* ---- Database accessors
logger(db) ==
    CASE db.kind = "Primary" -> Returned(Some("logger"))
      [] db.kind = "Replica" -> Returned(None)
      [] db.kind = "Schema" ->
            IF db.wal_wrapper THEN Returned(Some("logger")) ELSE Panicked

block_writes_copy(db) ==
    CASE db.kind = "Primary" -> Returned(Some("copy"))
      [] OTHER -> Returned(None)

block_writes(db) ==
    CASE db.kind = "Primary" -> Returned(Some("shared"))
      [] OTHER -> Returned(None)

notifier_detached(db, cell) ==
    CASE db.kind = "Primary" -> Returned(Some([chan |-> "detached", seen |-> 0]))
      [] db.kind = "Replica" -> Returned(None)
      [] db.kind = "Schema" -> Returned(Some([chan |-> "detached", seen |-> 0]))

notifier(db, cell) ==
    CASE db.kind = "Primary" -> Returned(Some([chan |-> "logger", seen |-> cell.version]))
      [] db.kind = "Replica" -> Returned(None)
      [] db.kind = "Schema" -> Returned(Some(db.new_frame_notifier))

is_primary(db) == Returned(db.kind = "Primary")

is_schema(db) == Returned(db.kind = "Schema")

replicator(db) ==
    CASE db.kind = "Primary" -> Returned(IF db.replicator THEN Some("replicator") ELSE None)
      [] db.kind = "Replica" -> Returned(None)
      [] db.kind = "Schema" -> Returned(IF db.replicator THEN Some("replicator") ELSE None)

\* the Connection variant the maker of each Database variant produces
connection_maker(db) ==
    CASE db.kind = "Primary" -> "Primary"
      [] db.kind = "Replica" -> "Replica"
      [] db.kind = "Schema" -> "Schema"

Connection_is_primary(conn) == conn.variant = "Primary"

\* ---- inputs of the Connection operations
Programs == {[write |-> FALSE, frames |-> 0]}
            \cup {[write |-> TRUE, frames |-> k] : k \in 1..MaxTxnFrames}
Contexts == {"ctx"}
Builders == {"builder"}
Sqls == {"select 1", "selec"}
ReplicationIndexes == {None, Some(MaxFrameNo)}
RawFns == {"f"}

OkInner(e) == [kind |-> "Ok", val |-> 0, err |-> "", msg |-> e]

\* ---- the backends: PrimaryConnection, ReplicaConnection, SchemaConnection
\* what backend call.backend does with the call: its outcome and the Frame
\* Log after it. blocked is the write-block flag the Primary reads before it
\* admits a write transaction; fault is a storage or transport failure.
backend_call(call, blocked, fault, lg, cell) ==
    LET same(r) == [res |-> r, log |-> lg, cell |-> cell] IN
    CASE call.op = "execute_program" ->
            LET pgm == call.args[1] IN
            IF call.backend = "Primary"
            THEN IF ~pgm.write THEN same(Ok(0))
                 ELSE IF blocked THEN same(Err("WriteBlocked", ""))
                 ELSE LET a == FrameLog_append(lg, cell, pgm.frames, ~fault) IN
                      [res |-> IF a.res.kind = "Ok" THEN Ok(0) ELSE a.res,
                       log |-> a.log, cell |-> a.cell]
            ELSE IF call.backend = "Schema"
            THEN IF ~pgm.write THEN same(Ok(0))
                 ELSE LET a == FrameLog_append(lg, cell, pgm.frames, ~fault) IN
                      [res |-> IF a.res.kind = "Ok" THEN Ok(0) ELSE a.res,
                       log |-> a.log, cell |-> a.cell]
            ELSE IF fault THEN same(Err("Backend", "")) ELSE same(Ok(0))
      [] call.op = "describe" ->
            IF fault THEN same(Err("Backend", ""))
            ELSE IF call.args[1] = "selec" THEN same(OkInner("ParseError"))
            ELSE same(Ok(0))
      [] call.op = "is_autocommit" ->
            IF fault THEN same(Err("Backend", "")) ELSE same(Ok(1))
      [] call.op \in {"checkpoint", "vacuum_if_needed"} ->
            IF fault THEN same(Err("Backend", "")) ELSE same(Ok(0))
      [] call.op = "diagnostics" -> same(OkInner(call.backend))
      [] call.op = "with_raw" -> same(OkInner(call.args[1]))

\* ---- impl crate::connection::Connection for Connection
\* each operation matches on the variant and delegates: the call it makes on
\* the backend, and what it returns given each backend's outcome (outs)
execute_program_drops_index(conn, pgm, ctx, response_builder, replication_index, outs) ==
    LET b == conn.variant IN
    [call |-> [backend |-> b, op |-> "execute_program",
               args |-> <<pgm, ctx, response_builder, None>>],
     ret |-> outs[b]]

execute_program_schema_as_primary(conn, pgm, ctx, response_builder, replication_index, outs) ==
    LET b == IF conn.variant = "Schema" THEN "Primary" ELSE conn.variant IN
    [call |-> [backend |-> b, op |-> "execute_program",
               args |-> <<pgm, ctx, response_builder, replication_index>>],
     ret |-> outs[b]]

execute_program(conn, pgm, ctx, response_builder, replication_index, outs) ==
    LET b == CASE conn.variant = "Primary" -> "Primary"
               [] conn.variant = "Replica" -> "Replica"
               [] conn.variant = "Schema" -> "Schema"
    IN  [call |-> [backend |-> b, op |-> "execute_program",
                   args |-> <<pgm, ctx, response_builder, replication_index>>],
         ret |-> outs[b]]

describe(conn, sql, ctx, replication_index, outs) ==
    LET b == CASE conn.variant = "Primary" -> "Primary"
               [] conn.variant = "Replica" -> "Replica"
               [] conn.variant = "Schema" -> "Schema"
    IN  [call |-> [backend |-> b, op |-> "describe",
                   args |-> <<sql, ctx, replication_index>>],
         ret |-> outs[b]]

is_autocommit(conn, outs) ==
    LET b == CASE conn.variant = "Primary" -> "Primary"
               [] conn.variant = "Replica" -> "Replica"
               [] conn.variant = "Schema" -> "Schema"
    IN  [call |-> [backend |-> b, op |-> "is_autocommit", args |-> <<>>],
         ret |-> outs[b]]

checkpoint(conn, outs) ==
    LET b == CASE conn.variant = "Primary" -> "Primary"
               [] conn.variant = "Replica" -> "Replica"
               [] conn.variant = "Schema" -> "Schema"
    IN  [call |-> [backend |-> b, op |-> "checkpoint", args |-> <<>>],
         ret |-> outs[b]]

vacuum_if_needed(conn, outs) ==
    LET b == CASE conn.variant = "Primary" -> "Primary"
               [] conn.variant = "Replica" -> "Replica"
               [] conn.variant = "Schema" -> "Schema"
    IN  [call |-> [backend |-> b, op |-> "vacuum_if_needed", args |-> <<>>],
         ret |-> outs[b]]

diagnostics(conn, outs) ==
    LET b == CASE conn.variant = "Primary" -> "Primary"
               [] conn.variant = "Replica" -> "Replica"
               [] conn.variant = "Schema" -> "Schema"
    IN  [call |-> [backend |-> b, op |-> "diagnostics", args |-> <<>>],
         ret |-> outs[b]]

with_raw(conn, f, outs) ==
    LET b == CASE conn.variant = "Primary" -> "Primary"
               [] conn.variant = "Replica" -> "Replica"
               [] conn.variant = "Schema" -> "Schema"
    IN  [call |-> [backend |-> b, op |-> "with_raw", args |-> <<f>>],
         ret |-> outs[b]]

\* ---- the server Databases that can be constructed
ServerDatabases ==
    {[kind |-> "Primary", wal_wrapper |-> TRUE, replicator |-> r,
      new_frame_notifier |-> NoReceiver, alive |-> TRUE] : r \in BOOLEAN}
    \cup {[kind |-> "Replica", wal_wrapper |-> FALSE, replicator |-> FALSE,
           new_frame_notifier |-> NoReceiver, alive |-> TRUE]}
    \cup {[kind |-> "Schema", wal_wrapper |-> w, replicator |-> r,
           new_frame_notifier |-> [chan |-> "logger", seen |-> 0], alive |-> TRUE] :
            w \in BOOLEAN, r \in BOOLEAN}

InitServer ==
    /\ ClientIdle
    /\ ParserIdle
    /\ sdb \in ServerDatabases
    /\ flags = [c \in {"shared", "copy"} |-> FALSE]
    /\ handle = None
    /\ conns = [c \in ConnIds |-> NoConnection]
    /\ req = NoReq
    /\ calls = <<>>
    /\ sres = Ok(0)
    /\ bres = Ok(0)
    /\ tick = FALSE
    /\ acc = NoAcc
    /\ LogIdle

\* the write-block flag the Primary's connections read
Blocked == flags["shared"]

\* One call op(args) on the Connection wrapper c: wrapper(outs) is what the
\* wrapper does with it
Outs(op, args, fault) ==
    [b \in Variants |->
        backend_call([backend |-> b, op |-> op, args |-> args], Blocked, fault,
                     log, notifier_cell).res]

Perform(c, op, args, r, fault) ==
    LET eff == backend_call(r.call, Blocked, fault, log, notifier_cell) IN
    /\ eff.log <= MaxFrameNo
    /\ req' = [conn |-> c, op |-> op, args |-> args]
    /\ calls' = <<r.call>>
    /\ sres' = r.ret
    /\ bres' = Outs(op, args, fault)[conns[c].variant]
    /\ tick' = ~tick
    /\ log' = eff.log
    /\ notifier_cell' = eff.cell
    /\ conns' = [conns EXCEPT ![c].was_blocked = @ \/ r.ret.err = "WriteBlocked"]
    /\ acc' = NoAcc
    /\ UNCHANGED <<sdb, flags, handle, subs, clientVars, parserVars>>

\* db.connection_maker().create() for session c
MakeConnection ==
    /\ sdb.alive
    /\ \E c \in ConnIds :
          /\ conns[c].variant = "none"
          /\ conns' = [conns EXCEPT ![c] = [variant |-> connection_maker(sdb),
                                            was_blocked |-> FALSE]]
    /\ acc' = [op |-> "connection_maker", res |-> Returned(Some(connection_maker(sdb)))]
    /\ req' = NoReq /\ calls' = <<>> /\ sres' = Ok(0) /\ bres' = Ok(0)
    /\ UNCHANGED <<sdb, flags, handle, tick, logVars, clientVars, parserVars>>

\* the Connections that exist
Made == {c \in ConnIds : conns[c].variant # "none"}

ExecuteProgram ==
    /\ sdb.alive
    /\ \E c \in Made, pgm \in Programs, ctx \in Contexts, rb \in Builders,
          idx \in ReplicationIndexes, fault \in BOOLEAN :
          Perform(c, "execute_program", <<pgm, ctx, rb, idx>>,
                  execute_program(conns[c], pgm, ctx, rb, idx,
                                  Outs("execute_program", <<pgm, ctx, rb, idx>>, fault)),
                  fault)

Describe ==
    /\ sdb.alive
    /\ \E c \in Made, sql \in Sqls, ctx \in Contexts,
          idx \in ReplicationIndexes, fault \in BOOLEAN :
          Perform(c, "describe", <<sql, ctx, idx>>,
                  describe(conns[c], sql, ctx, idx, Outs("describe", <<sql, ctx, idx>>, fault)),
                  fault)

IsAutocommit ==
    /\ sdb.alive
    /\ \E c \in Made, fault \in BOOLEAN :
          Perform(c, "is_autocommit", <<>>,
                  is_autocommit(conns[c], Outs("is_autocommit", <<>>, fault)), fault)

Checkpoint ==
    /\ sdb.alive
    /\ \E c \in Made, fault \in BOOLEAN :
          Perform(c, "checkpoint", <<>>,
                  checkpoint(conns[c], Outs("checkpoint", <<>>, fault)), fault)

VacuumIfNeeded ==
    /\ sdb.alive
    /\ \E c \in Made, fault \in BOOLEAN :
          Perform(c, "vacuum_if_needed", <<>>,
                  vacuum_if_needed(conns[c], Outs("vacuum_if_needed", <<>>, fault)), fault)

Diagnostics ==
    /\ sdb.alive
    /\ \E c \in Made :
          Perform(c, "diagnostics", <<>>,
                  diagnostics(conns[c], Outs("diagnostics", <<>>, FALSE)), FALSE)

WithRaw ==
    /\ sdb.alive
    /\ \E c \in Made, f \in RawFns :
          Perform(c, "with_raw", <<f>>,
                  with_raw(conns[c], f, Outs("with_raw", <<f>>, FALSE)), FALSE)

\* a call of one of the Database accessors
Accessor(op, res) ==
    /\ sdb.alive
    /\ acc' = [op |-> op, res |-> res]
    /\ req' = NoReq /\ calls' = <<>> /\ sres' = Ok(0) /\ bres' = Ok(0)
    /\ UNCHANGED <<sdb, flags, conns, tick, logVars, clientVars, parserVars>>

Logger == Accessor("logger", logger(sdb)) /\ UNCHANGED handle

Notifier == Accessor("notifier", notifier(sdb, notifier_cell)) /\ UNCHANGED handle

Replicator == Accessor("replicator", replicator(sdb)) /\ UNCHANGED handle

IsPrimary == Accessor("is_primary", is_primary(sdb)) /\ UNCHANGED handle

IsSchema == Accessor("is_schema", is_schema(sdb)) /\ UNCHANGED handle

\* the coordinator takes the write-block flag
BlockWrites ==
    /\ Accessor("block_writes", block_writes(sdb))
    /\ handle' = block_writes(sdb).val

\* the coordinator stores b into the flag it holds
StoreFlag ==
    /\ sdb.alive
    /\ \E h \in handle, b \in BOOLEAN :
          /\ flags[h] # b
          /\ flags' = [flags EXCEPT ![h] = b]
    /\ UNCHANGED <<sdb, handle, conns, req, calls, sres, bres, tick, acc, logVars, clientVars, parserVars>>

\* db.destroy() / db.shutdown().await consume the Database
Destroy ==
    /\ sdb.alive
    /\ sdb' = [sdb EXCEPT !.alive = FALSE]
    /\ acc' = [op |-> "destroy", res |-> Returned(None)]
    /\ req' = NoReq /\ calls' = <<>> /\ sres' = Ok(0) /\ bres' = Ok(0)
    /\ UNCHANGED <<flags, handle, conns, tick, logVars, clientVars, parserVars>>

Shutdown ==
    /\ sdb.alive
    /\ \E ok \in BOOLEAN :
          /\ sdb' = [sdb EXCEPT !.alive = FALSE]
          /\ acc' = [op |-> "shutdown", res |-> Returned(IF ok THEN None ELSE Some("error"))]
    /\ req' = NoReq /\ calls' = <<>> /\ sres' = Ok(0) /\ bres' = Ok(0)
    /\ UNCHANGED <<flags, handle, conns, tick, logVars, clientVars, parserVars>>

NextServer ==
    \/ MakeConnection
    \/ ExecuteProgram
    \/ Describe
    \/ IsAutocommit
    \/ Checkpoint
    \/ VacuumIfNeeded
    \/ Diagnostics
    \/ WithRaw
    \/ Logger
    \/ Notifier
    \/ Replicator
    \/ IsPrimary
    \/ IsSchema
    \/ BlockWrites
    \/ StoreFlag
    \/ Destroy
    \/ Shutdown

SpecServer == InitServer /\ [][NextServer]_vars

\* ------------------------------------------------------------ claims, part B

\* the step is an execute_program call on a Primary connection
PrimaryExecuteStep ==
    /\ tick' # tick
    /\ req'.op = "execute_program"
    /\ conns[req'.conn].variant = "Primary"

\* the flag the coordinator got from block_writes() is set
HandedOutFlagSet == \E h \in handle : flags[h]

\* C6: while the flag handed out by block_writes() is set, every write on any
\* connection of the Primary fails at once with the write-blocked error and
\* appends nothing, and reads succeed; once the flag is cleared the existing
\* connections write without being refused as blocked.
C6_WriteBlock ==
    [][PrimaryExecuteStep =>
          LET pgm == req'.args[1] IN
          /\ (HandedOutFlagSet /\ pgm.write) =>
                /\ sres' = Err("WriteBlocked", "")
                /\ log' = log
                /\ notifier_cell' = notifier_cell
          /\ ~pgm.write => sres'.kind = "Ok"
          /\ (handle # None /\ ~HandedOutFlagSet /\ pgm.write) =>
                /\ sres'.err # "WriteBlocked"
                /\ sres'.kind = "Ok" => log' = log + pgm.frames]_vars

\* a connection that was refused while the flag was set has now written
C6_Witness ==
    /\ req.op = "execute_program"
    /\ req.args[1].write
    /\ conns[req.conn].was_blocked
    /\ handle # None
    /\ ~HandedOutFlagSet
    /\ sres.kind = "Ok"
    /\ Made = ConnIds

\* C8: logger() and notifier() return a present handle exactly when the
\* variant is Primary or Schema, and absent for Replica; replicator() returns
\* absent for Replica.
C8_AccessorPresence ==
    /\ acc.op \in {"logger", "notifier"} =>
          /\ acc.res.outcome = "Returned"
          /\ (acc.res.val # None) <=> (sdb.kind \in {"Primary", "Schema"})
    /\ (acc.op = "replicator" /\ sdb.kind = "Replica") => acc.res = Returned(None)

\* the call the wrapper has to make for the request it received
ExpectedCall(r) == [backend |-> conns[r.conn].variant, op |-> r.op, args |-> r.args]

\* C9: every operation of the Connection wrapper makes exactly one call, the
\* same operation with the arguments received, on the backend of the
\* wrapper's variant, and returns that backend's outcome unchanged.
C9_Dispatch ==
    req.op # "none" =>
        /\ calls = <<ExpectedCall(req)>>
        /\ sres = bres

C9_Witness ==
    /\ req.op = "execute_program"
    /\ conns[req.conn].variant = "Schema"
    /\ req.args[4] = Some(MaxFrameNo)
    /\ req.args[1].write
    /\ sres.kind = "Err"
    /\ calls = <<ExpectedCall(req)>>

\* C10: logger() never aborts, also on a Schema Database whose wal_wrapper is
\* not set, and answers present or absent as notifier() does for the same
\* Database.
C10_LoggerNeverPanics ==
    acc.op = "logger" =>
        /\ acc.res.outcome # "Panic"
        /\ (acc.res.val # None) <=> (notifier(sdb, notifier_cell).val # None)


(***************************************************************************)
(* Part C. The Frame Log and its latest-sequence notifier                  *)
(***************************************************************************)
\* Option<FrameNo> as a number: None is below every sequence number
FrameNoOf(opt) == IF opt = None THEN 0 ELSE CHOOSE v \in opt : TRUE

Published == FrameNoOf(notifier_cell.value)

\* the channel a Receiver reads: the logger's, or one nothing is sent on
RecvCell(rx) ==
    IF rx.chan = "logger" THEN notifier_cell ELSE [value |-> None, version |-> 0]

\* watch::Receiver::borrow
borrow(rx) == RecvCell(rx).value

\* watch::Receiver::has_changed
has_changed(rx) == RecvCell(rx).version # rx.seen

\* the closure of wait_for: the value is at least sequence number n
AtLeast(opt, n) == \E v \in opt : v >= n

InitLog ==
    /\ ClientIdle
    /\ ParserIdle
    /\ sdb \in ServerDatabases
    /\ flags = [c \in {"shared", "copy"} |-> FALSE]
    /\ handle = None
    /\ conns = [c \in ConnIds |-> NoConnection]
    /\ req = NoReq
    /\ calls = <<>>
    /\ sres = Ok(0)
    /\ bres = Ok(0)
    /\ tick = FALSE
    /\ acc = NoAcc
    /\ LogIdle

logOnly == <<clientVars, parserVars, sdb, flags, handle, conns, req, calls, sres, bres, tick>>

\* a transaction of k frames commits on a Database that has a Frame Log
AppendFrames ==
    /\ sdb.kind \in {"Primary", "Schema"}
    /\ \E k \in 1..MaxTxnFrames, io_ok \in BOOLEAN :
          LET a == FrameLog_append(log, notifier_cell, k, io_ok) IN
          /\ log + k <= MaxFrameNo
          /\ log' = a.log
          /\ notifier_cell' = a.cell
          /\ acc' = [op |-> "append", res |-> [outcome |-> a.res.kind, val |-> None]]
    /\ UNCHANGED <<subs, logOnly>>

\* db.notifier(): task s subscribes
Subscribe(s) ==
    /\ subs[s].pc = "none"
    /\ LET r == notifier(sdb, notifier_cell) IN
       /\ acc' = [op |-> "notifier", res |-> r]
       /\ \E rx \in r.val :
             subs' = [subs EXCEPT ![s] = [rx |-> rx, pc |-> "idle", target |-> 0,
                                         checked |-> FALSE, observed |-> borrow(rx),
                                         wakes |-> 0]]
    /\ UNCHANGED <<log, notifier_cell, logOnly>>

\* rx.wait_for(|v| v >= Some(n)) is called
WaitFor(s) ==
    /\ subs[s].pc = "idle"
    /\ \E n \in 1..MaxFrameNo :
          subs' = [subs EXCEPT ![s].pc = "waiting", ![s].target = n, ![s].checked = FALSE]
    /\ UNCHANGED <<log, notifier_cell, acc, logOnly>>

\* the waiting task runs: wait_for tests the current value first and then
\* once after every change it has not seen; it returns when the test passes
Poll(s) ==
    /\ subs[s].pc = "waiting"
    /\ ~subs[s].checked \/ has_changed(subs[s].rx)
    /\ LET rx == subs[s].rx
           v == borrow(rx)
       IN  subs' = [subs EXCEPT
                      ![s].observed = v,
                      ![s].checked = TRUE,
                      ![s].rx = [rx EXCEPT !.seen = RecvCell(rx).version],
                      ![s].pc = IF AtLeast(v, subs[s].target) THEN "resumed" ELSE "waiting",
                      ![s].wakes = IF AtLeast(v, subs[s].target) THEN @ + 1 ELSE @]
    /\ UNCHANGED <<log, notifier_cell, acc, logOnly>>

NextLog ==
    \/ AppendFrames
    \/ \E s \in Subscribers : Subscribe(s)
    \/ \E s \in Subscribers : WaitFor(s)
    \/ \E s \in Subscribers : Poll(s)

SpecLog == InitLog /\ [][NextLog]_vars

\* a task that can run is eventually run
FairLog == SpecLog /\ \A s \in Subscribers : WF_vars(Poll(s))

\* ------------------------------------------------------------ claims, part C

\* C3: the published latest sequence number never decreases; a successful
\* append strictly increases it, to the number of the last frame appended; a
\* failed append leaves it unchanged; no subscriber observes a value lower
\* than one it observed before.
C3_PublishedMonotone ==
    [][/\ FrameNoOf(notifier_cell'.value) >= FrameNoOf(notifier_cell.value)
       /\ log' # log =>
             /\ FrameNoOf(notifier_cell'.value) > FrameNoOf(notifier_cell.value)
             /\ notifier_cell'.value = Some(log')
       /\ (acc'.op = "append" /\ acc'.res.outcome = "Err") =>
             /\ notifier_cell' = notifier_cell
             /\ log' = log
       /\ \A s \in Subscribers :
             FrameNoOf(subs'[s].observed) >= FrameNoOf(subs[s].observed)]_vars

C3_Witness ==
    /\ acc.op = "append"
    /\ acc.res.outcome = "Err"
    /\ Published > 1
    /\ \E s \in Subscribers : FrameNoOf(subs[s].observed) = Published
    /\ \E s \in Subscribers : /\ FrameNoOf(subs[s].observed) > 0
                               /\ FrameNoOf(subs[s].observed) < Published

\* C7: a subscriber waiting for sequence >= N resumes only on a value >= N
\* and at most once; once a value >= N is published it does resume; reading
\* a subscription gives the current value, so a subscriber created after the
\* publication observes it immediately.
C7_WaitResumes ==
    /\ [](\A s \in Subscribers :
            /\ subs[s].wakes <= 1
            /\ (subs[s].pc = "resumed") <=> (subs[s].wakes = 1)
            /\ subs[s].pc = "resumed" =>
                  /\ FrameNoOf(subs[s].observed) >= subs[s].target
                  /\ Published >= subs[s].target
            /\ subs[s].pc # "none" => borrow(subs[s].rx) = notifier_cell.value)
    /\ \A s \in Subscribers :
          (subs[s].pc = "waiting" /\ Published >= subs[s].target)
             ~> (subs[s].pc = "resumed")

\* a subscriber resumed on N although values below N were published and
\* coalesced while it waited
C7_Witness ==
    \E s \in Subscribers :
        /\ subs[s].pc = "resumed"
        /\ subs[s].target = MaxFrameNo
        /\ subs[s].rx.seen >= 2
        /\ \E t \in Subscribers : t # s /\ subs[t].pc = "idle"
                                  /\ FrameNoOf(subs[t].observed) = MaxFrameNo

\* ---- Part D: the steps of the parser Context
InitParser ==
    /\ ClientIdle
    /\ ServerIdle
    /\ LogIdle
    /\ \E input \in Inputs : pctx = Context_new(input)
    /\ pcompleted = FALSE
    /\ pres = NoParserCall

parserOnly == <<clientVars, serverVars, logVars>>

\* how a returned Option or bool is recorded in pres
OptTag(opt, tag) == IF opt = None THEN "None" ELSE tag
BoolTag(b) == IF b THEN "true" ELSE "false"

\* the steps of the grammar actions while a statement is being parsed
ParseExplain ==
    /\ ~pcompleted
    /\ \E k \in ExplainKinds : pctx' = [pctx EXCEPT !.explain = Some(k)]
    /\ UNCHANGED <<pcompleted, pres, parserOnly>>

ParseStmt ==
    /\ ~pcompleted
    /\ \E s \in Stmts : pctx' = [pctx EXCEPT !.stmt = Some(s)]
    /\ UNCHANGED <<pcompleted, pres, parserOnly>>

ParseConstraintName ==
    /\ ~pcompleted
    /\ \E n \in Names : pctx' = [pctx EXCEPT !.constraint_name = Some(n)]
    /\ UNCHANGED <<pcompleted, pres, parserOnly>>

TakeConstraintName ==
    /\ ~pcompleted
    /\ LET r == Context_constraint_name(pctx) IN
       /\ pctx' = r.ctx
       /\ pres' = [op |-> "constraint_name", ret |-> OptTag(r.ret, "Some")]
    /\ UNCHANGED <<pcompleted, parserOnly>>

NoConstraintName ==
    /\ ~pcompleted
    /\ pres' = [op |-> "no_constraint_name", ret |-> BoolTag(Context_no_constraint_name(pctx))]
    /\ UNCHANGED <<pctx, pcompleted, parserOnly>>

VtabArgInit ==
    /\ ~pcompleted
    /\ \A v \in Context_add_module_arg(pctx).module_args : Len(v) <= MaxModuleArgs
    /\ pctx' = Context_vtab_arg_init(pctx)
    /\ UNCHANGED <<pcompleted, pres, parserOnly>>

VtabArgExtend ==
    /\ ~pcompleted
    /\ \E any \in TokensOf(pctx.input) :
          /\ \A se \in pctx.module_arg : se[1] < any.end
          /\ pctx' = Context_vtab_arg_extend(pctx, any)
    /\ UNCHANGED <<pcompleted, pres, parserOnly>>

ModuleArgs ==
    /\ ~pcompleted
    /\ LET r == Context_module_args(pctx) IN
       /\ pctx' = r.ctx
       /\ pres' = [op |-> "module_args", ret |-> OptTag(r.ret, "Some")]
    /\ UNCHANGED <<pcompleted, parserOnly>>

ErrorMsg ==
    /\ ~pcompleted
    /\ pctx' = Context_sqlite3_error_msg(pctx, "msg")
    /\ pres' = [op |-> "sqlite3_error_msg", ret |-> "unit"]
    /\ UNCHANGED <<pcompleted, parserOnly>>

\* the statement has been parsed
FinishCoding ==
    /\ ~pcompleted
    /\ pctx' = Context_sqlite3_finish_coding(pctx)
    /\ pcompleted' = TRUE
    /\ UNCHANGED <<pres, parserOnly>>

\* the parser fails and records its error
ParseFails ==
    /\ ~pcompleted
    /\ \E e \in ParserErrors : pctx' = [pctx EXCEPT !.error = Some(e)]
    /\ pcompleted' = TRUE
    /\ UNCHANGED <<pres, parserOnly>>

\* the calls of the Context's user
Cmd ==
    /\ LET r == Context_cmd(pctx) IN
       /\ pctx' = r.ctx
       /\ pres' = [op |-> "cmd",
                   ret |-> IF r.ret = None THEN "None"
                           ELSE (CHOOSE x \in r.ret : TRUE).cmd]
    /\ UNCHANGED <<pcompleted, parserOnly>>

Done ==
    /\ pres' = [op |-> "done", ret |-> BoolTag(Context_done(pctx))]
    /\ UNCHANGED <<pctx, pcompleted, parserOnly>>

IsOk ==
    /\ pres' = [op |-> "is_ok", ret |-> BoolTag(Context_is_ok(pctx))]
    /\ UNCHANGED <<pctx, pcompleted, parserOnly>>

Error ==
    /\ LET r == Context_error(pctx) IN
       /\ pctx' = r.ctx
       /\ pres' = [op |-> "error",
                   ret |-> IF r.ret = None THEN "None" ELSE CHOOSE e \in r.ret : TRUE]
    /\ UNCHANGED <<pcompleted, parserOnly>>

Reset ==
    /\ pctx' = Context_reset(pctx)
    /\ pcompleted' = FALSE
    /\ pres' = [op |-> "reset", ret |-> "unit"]
    /\ UNCHANGED parserOnly

NextParser ==
    \/ ParseExplain
    \/ ParseStmt
    \/ ParseConstraintName
    \/ TakeConstraintName
    \/ NoConstraintName
    \/ VtabArgInit
    \/ VtabArgExtend
    \/ ModuleArgs
    \/ ErrorMsg
    \/ FinishCoding
    \/ ParseFails
    \/ Cmd
    \/ Done
    \/ IsOk
    \/ Error
    \/ Reset

SpecParser == InitParser /\ [][NextParser]_vars

\* ------------------------------------------------------------ claims, part D

\* C11: once the parser has completed, with success or with an error, done()
\* returns true on every later call until reset(), whatever cmd(), is_ok()
\* and error() calls happen in between; after reset() the Context equals a
\* freshly created Context over the same input.
C11_DoneUntilReset ==
    /\ pcompleted => Context_done(pctx)
    /\ LET fresh == Context_reset(pctx) IN
       /\ fresh = Context_new(pctx.input)
       /\ ~Context_done(fresh)
       /\ Context_is_ok(fresh)
       /\ Context_cmd(fresh).ret = None
       /\ Context_error(fresh).ret = None

====
